---- MODULE Spec2Model ----
(***************************************************************************)
(* Model of SignalingServer (signaling_server.py): the room registry       *)
(* self.rooms and the per-connection coroutine websocket_handler, run by   *)
(* an asyncio event loop.  A coroutine runs atomically between two awaits, *)
(* so every action below is the code between two suspension points.        *)
(***************************************************************************)
EXTENDS Integers, Sequences, FiniteSets, TLC

\* ---- bounds of the model ----
NConn == 3
MaxMsgs == 2

Conns == 1..NConn
RoomIds == {"default", "room1"}
ClientTypes == {"streamer", "viewer"}

\* Python's None (room['streamer'] when no streamer is recorded)
None == 0
NoMsg == [id |-> 0, data |-> ""]

\* texts a client may send as a TEXT frame
ObjText == "{\"type\": \"offer\"}"
ListText == "[1]"
BadText == "{oops"
Payloads == {ObjText, ListText, BadText}

\* an error object with another reason text
ErrorObjLower == [type |-> "error", message |-> "room already has a streamer"]

\* json.dumps({'type': 'error', 'message': 'Room already has a streamer'})
ErrorObj == [type |-> "error", message |-> "Room already has a streamer"]
JsonDumps(obj) ==
  "{\"type\": \"" \o obj.type \o "\", \"message\": \"" \o obj.message \o "\"}"
ErrorText == JsonDumps(ErrorObj)

\* json.loads on the texts of the model: a dict, another JSON value, or
\* JSONDecodeError
JsonLoads(s) ==
  CASE s = ObjText -> [kind |-> "dict", type |-> "offer"]
    [] s = ListText -> [kind |-> "list"]
    [] s = "{\"type\": \"error\", \"message\": \"Room already has a streamer\"}" ->
         [kind |-> "dict", type |-> "error",
          message |-> "Room already has a streamer"]
    [] s = "{\"type\": \"error\", \"message\": \"room already has a streamer\"}" ->
         [kind |-> "dict", type |-> "error",
          message |-> "room already has a streamer"]
    [] OTHER -> [kind |-> "JSONDecodeError"]

\* a handler that forwards whatever text it receives
ForwardableAlways(s) == TRUE

\* data = json.loads(msg.data); data.get('type') succeeds only on a dict:
\* JSONDecodeError and AttributeError are both caught and logged
Forwardable(s) == JsonLoads(s).kind = "dict"

VARIABLES
  rooms,        \* self.rooms: room id -> [streamer, viewers]
  pc,           \* where each connection's handler is suspended
  room_id,      \* request.query 'room' of each connection
  client_type,  \* request.query 'type' of each connection
  cur,          \* msg being (or last) handled by the handler: [id, data]
  snap,         \* room['viewers'].copy() of the handler's current fan-out
  pending,      \* members of the copy the for loop has not reached yet
  target,       \* the room['streamer'] whose send_str a viewer awaits
  sent,         \* per connection: the send_str calls made on it, in order
  evicted,      \* connections removed from a room by an except branch
  exitPath,     \* how the receive loop of a connection ended
  sawStreamer,  \* room['streamer'] as the finally block of a streamer read it
  closed,       \* the connections whose transport has ended
  nextId        \* number of TEXT frames received so far, plus one

vars == <<rooms, pc, room_id, client_type, cur, snap, pending, target, sent,
          evicted, exitPath, sawStreamer, closed, nextId>>

\* truth value of room['streamer']: None is false, a WebSocketResponse true
Truthy(x) == x # None

NewRoom == [streamer |-> None, viewers |-> {}]

\* a new room that starts with the members of a room that exists already
EnsureRoomAliased(rs, r) ==
  IF r \in DOMAIN rs THEN rs
  ELSE (r :> (IF DOMAIN rs = {} THEN NewRoom
              ELSE rs[CHOOSE q \in DOMAIN rs : TRUE])) @@ rs

\* if room_id not in self.rooms: self.rooms[room_id] = {...}
EnsureRoom(rs, r) == IF r \in DOMAIN rs THEN rs ELSE (r :> NewRoom) @@ rs

Init ==
  /\ rooms = <<>>
  /\ pc = [c \in Conns |-> "new"]
  /\ room_id = [c \in Conns |-> "default"]
  /\ client_type = [c \in Conns |-> "viewer"]
  /\ cur = [c \in Conns |-> NoMsg]
  /\ snap = [c \in Conns |-> {}]
  /\ pending = [c \in Conns |-> {}]
  /\ target = [c \in Conns |-> None]
  /\ sent = [c \in Conns |-> <<>>]
  /\ evicted = {}
  /\ exitPath = [c \in Conns |-> "none"]
  /\ sawStreamer = [c \in Conns |-> None]
  /\ closed = [c \in Conns |-> FALSE]
  /\ nextId = 1

\* A request arrives and the handler suspends in ws.prepare(request).
\* Connections are numbered in their order of arrival.
Connect(c, r, t) ==
  /\ pc[c] = "new"
  /\ \A d \in Conns : d < c => pc[d] # "new"
  /\ pc' = [pc EXCEPT ![c] = "connecting"]
  /\ room_id' = [room_id EXCEPT ![c] = r]
  /\ client_type' = [client_type EXCEPT ![c] = t]
  /\ UNCHANGED <<rooms, cur, snap, pending, target, sent, evicted, exitPath,
                 sawStreamer, closed, nextId>>

\* a join that does not look at the streamer already recorded
StreamerTakenNever(room) == FALSE

\* the streamer branch's test: a streamer is already recorded
StreamerTaken(room) == Truthy(room.streamer)

\* a join that refuses a viewer when the room has no streamer
JoinViewerNeedsStreamer(c) ==
  /\ pc[c] = "connecting"
  /\ LET r == room_id[c]
         rs == EnsureRoom(rooms, r)
         room == rs[r]
     IN IF client_type[c] = "streamer"
        THEN IF StreamerTaken(room)
             THEN /\ rooms' = rs
                  /\ pc' = [pc EXCEPT ![c] = "rejecting"]
             ELSE /\ rooms' = [rs EXCEPT ![r].streamer = c]
                  /\ pc' = [pc EXCEPT ![c] = "loop"]
        ELSE IF room.streamer = None
             THEN /\ rooms' = rs
                  /\ pc' = [pc EXCEPT ![c] = "rejecting"]
             ELSE /\ rooms' = [rs EXCEPT ![r].viewers = @ \cup {c}]
                  /\ pc' = [pc EXCEPT ![c] = "loop"]
  /\ UNCHANGED <<room_id, client_type, cur, snap, pending, target, sent,
                 evicted, exitPath, sawStreamer, closed, nextId>>

\* ws.prepare returns; lines 25-43 run up to the next await
Join(c) ==
  /\ pc[c] = "connecting"
  /\ LET r == room_id[c]
         rs == EnsureRoom(rooms, r)
         room == rs[r]
     IN IF client_type[c] = "streamer"
        THEN IF StreamerTaken(room)
             THEN /\ rooms' = rs
                  /\ pc' = [pc EXCEPT ![c] = "rejecting"]
             ELSE /\ rooms' = [rs EXCEPT ![r].streamer = c]
                  /\ pc' = [pc EXCEPT ![c] = "loop"]
        ELSE /\ rooms' = [rs EXCEPT ![r].viewers = @ \cup {c}]
             /\ pc' = [pc EXCEPT ![c] = "loop"]
  /\ UNCHANGED <<room_id, client_type, cur, snap, pending, target, sent,
                 evicted, exitPath, sawStreamer, closed, nextId>>

\* sends that reach a connection in the reverse order
RecordPrepend(log, v, m, from, ok) ==
  [log EXCEPT ![v] = <<[id |-> m.id, data |-> m.data, from |-> from,
                        ok |-> ok]>> \o @]

\* one send_str call on connection v, appended to what was sent on it
Attempt(m, from, ok) == [id |-> m.id, data |-> m.data, from |-> from, ok |-> ok]
Record(log, v, m, from, ok) ==
  [log EXCEPT ![v] = Append(@, Attempt(m, from, ok))]

\* lines 34-36: the error is sent to the refused streamer; an exception of
\* send_str leaves the handler, which is not inside the try block yet
RejectSend(c, ok) ==
  /\ pc[c] = "rejecting"
  /\ sent' = Record(sent, c, [id |-> 0, data |-> ErrorText], c, ok)
  /\ pc' = [pc EXCEPT ![c] = IF ok THEN "closing" ELSE "rejected"]
  /\ UNCHANGED <<rooms, room_id, client_type, cur, snap, pending, target,
                 evicted, exitPath, sawStreamer, closed, nextId>>

\* a rejection without its return: the handler goes on into the receive loop
RejectCloseNoReturn(c) ==
  /\ pc[c] = "closing"
  /\ pc' = [pc EXCEPT ![c] = "loop"]
  /\ UNCHANGED <<rooms, room_id, client_type, cur, snap, pending, target,
                 sent, evicted, exitPath, sawStreamer, closed, nextId>>

\* lines 37-38: await ws.close(); return ws
RejectClose(c) ==
  /\ pc[c] = "closing"
  /\ pc' = [pc EXCEPT ![c] = "rejected"]
  /\ UNCHANGED <<rooms, room_id, client_type, cur, snap, pending, target,
                 sent, evicted, exitPath, sawStreamer, closed, nextId>>

\* a copy that misses one of the viewers
ViewersCopySkipsOne(viewers) ==
  IF viewers = {} THEN {} ELSE viewers \ {CHOOSE v \in viewers : TRUE}

\* line 57: room['viewers'].copy()
ViewersCopy(viewers) == viewers

\* a viewer's message that is never forwarded
StreamerForNobody(room) == None

\* line 64: the streamer a viewer's message is forwarded to, None if absent
StreamerFor(room) == IF Truthy(room.streamer) THEN room.streamer ELSE None

\* lines 46-57 and 62-66: a TEXT frame arrives on c; the handler decodes it
\* and runs up to the first send_str, or back to the receive
RecvText(c, data) ==
  /\ pc[c] = "loop"
  /\ nextId <= MaxMsgs
  /\ nextId' = nextId + 1
  /\ cur' = [cur EXCEPT ![c] = [id |-> nextId, data |-> data]]
  /\ LET room == rooms[room_id[c]]
         copy == IF Forwardable(data) /\ client_type[c] = "streamer"
                 THEN ViewersCopy(room.viewers) ELSE {}
         dest == IF Forwardable(data) /\ client_type[c] # "streamer"
                 THEN StreamerFor(room) ELSE None
     IN /\ snap' = [snap EXCEPT ![c] = copy]
        /\ pending' = [pending EXCEPT ![c] = copy]
        /\ target' = [target EXCEPT ![c] = dest]
        /\ pc' = [pc EXCEPT ![c] = IF copy # {} THEN "fanout"
                                   ELSE IF dest # None THEN "sendS"
                                   ELSE "loop"]
  /\ UNCHANGED <<rooms, room_id, client_type, sent, evicted, exitPath,
                 sawStreamer, closed>>

\* an except branch that swallows the failure and keeps the viewer
DiscardViewerKeeps(room, v) == room

\* lines 60-61: except: room['viewers'].discard(viewer)
DiscardViewer(room, v) == [room EXCEPT !.viewers = @ \ {v}]

\* a for loop over room['viewers'] itself: when the set has changed since
\* the loop started, the iteration raises and the rest of the loop is lost
FanoutSendLive(c, v, ok) ==
  /\ pc[c] = "fanout"
  /\ v \in pending[c]
  /\ IF rooms[room_id[c]].viewers # snap[c]
     THEN /\ pc' = [pc EXCEPT ![c] = "loop"]
          /\ UNCHANGED <<rooms, evicted, sent, pending>>
     ELSE /\ sent' = Record(sent, v, cur[c], c, ok)
          /\ pending' = [pending EXCEPT ![c] = @ \ {v}]
          /\ pc' = [pc EXCEPT ![c] =
                      IF pending[c] = {v} THEN "loop" ELSE "fanout"]
          /\ IF ok
             THEN UNCHANGED <<rooms, evicted>>
             ELSE /\ rooms' = [rooms EXCEPT
                                 ![room_id[c]] = DiscardViewer(@, v)]
                  /\ evicted' = evicted \cup {v}
  /\ UNCHANGED <<room_id, client_type, cur, snap, target, exitPath,
                 sawStreamer, closed, nextId>>

\* lines 57-61: one iteration of the for loop, the send_str to viewer v
\* returning (ok) or raising (not ok)
FanoutSend(c, v, ok) ==
  /\ pc[c] = "fanout"
  /\ v \in pending[c]
  /\ sent' = Record(sent, v, cur[c], c, ok)
  /\ pending' = [pending EXCEPT ![c] = @ \ {v}]
  /\ pc' = [pc EXCEPT ![c] = IF pending[c] = {v} THEN "loop" ELSE "fanout"]
  /\ LET r == room_id[c]
     IN IF ok
        THEN UNCHANGED <<rooms, evicted>>
        ELSE /\ rooms' = [rooms EXCEPT ![r] = DiscardViewer(@, v)]
             /\ evicted' = evicted \cup (rooms[r].viewers \ rooms'[r].viewers)
  /\ UNCHANGED <<room_id, client_type, cur, snap, target, exitPath,
                 sawStreamer, closed, nextId>>

\* lines 67-68: except: room['streamer'] = None
ClearStreamer(room, dest) == [room EXCEPT !.streamer = None]

\* lines 66-68: the send_str to the streamer read at line 66 returns (ok)
\* or raises (not ok)
SendStreamerDone(c, ok) ==
  /\ pc[c] = "sendS"
  /\ sent' = Record(sent, target[c], cur[c], c, ok)
  /\ pc' = [pc EXCEPT ![c] = "loop"]
  /\ LET r == room_id[c]
     IN IF ok
        THEN UNCHANGED <<rooms, evicted>>
        ELSE /\ rooms' = [rooms EXCEPT ![r] = ClearStreamer(@, target[c])]
             /\ evicted' = evicted \cup
                   ({rooms[r].streamer} \ {None, rooms'[r].streamer})
  /\ UNCHANGED <<room_id, client_type, cur, snap, pending, target, exitPath,
                 sawStreamer, closed, nextId>>

\* a finally block that forgets the viewers
LeaveKeepsViewer(room, c, t) ==
  IF t = "streamer" /\ room.streamer = c
  THEN [room EXCEPT !.streamer = None]
  ELSE room

\* a finally block that clears the streamer without comparing it with ws
LeaveAlwaysClears(room, c, t) ==
  IF t = "streamer"
  THEN [room EXCEPT !.streamer = None]
  ELSE [room EXCEPT !.viewers = @ \ {c}]

\* a finally block that never clears the streamer
LeaveNeverClears(room, c, t) == [room EXCEPT !.viewers = @ \ {c}]

\* lines 81-88: the finally block
Leave(room, c, t) ==
  IF t = "streamer" /\ room.streamer = c
  THEN [room EXCEPT !.streamer = None]
  ELSE [room EXCEPT !.viewers = @ \ {c}]

\* the transport of c ends (close frame, error or exception) and the receive
\* loop of c, suspended at line 46, ends by path how; the finally block runs
Exit(c, how) ==
  /\ pc[c] = "loop"
  /\ pc' = [pc EXCEPT ![c] = "left"]
  /\ exitPath' = [exitPath EXCEPT ![c] = how]
  /\ sawStreamer' = [sawStreamer EXCEPT ![c] =
        IF client_type[c] = "streamer" THEN rooms[room_id[c]].streamer
        ELSE None]
  /\ rooms' = [rooms EXCEPT ![room_id[c]] = Leave(@, c, client_type[c])]
  /\ closed' = [closed EXCEPT ![c] = TRUE]
  /\ UNCHANGED <<room_id, client_type, cur, snap, pending, target, sent,
                 evicted, nextId>>

\* line 46: the async for ends, the peer closed the connection
RecvClose(c) == Exit(c, "close")

\* lines 75-77: a frame of type ERROR, break
RecvError(c) == Exit(c, "error")

\* lines 79-80: the receive raises, except Exception logs it
RecvException(c) == Exit(c, "exception")

Next ==
  \/ \E c \in Conns, r \in RoomIds, t \in ClientTypes : Connect(c, r, t)
  \/ \E c \in Conns : Join(c)
  \/ \E c \in Conns, ok \in BOOLEAN : RejectSend(c, ok)
  \/ \E c \in Conns : RejectClose(c)
  \/ \E c \in Conns, data \in Payloads : RecvText(c, data)
  \/ \E c \in Conns, v \in Conns, ok \in BOOLEAN : FanoutSend(c, v, ok)
  \/ \E c \in Conns, ok \in BOOLEAN : SendStreamerDone(c, ok)
  \/ \E c \in Conns : RecvClose(c)
  \/ \E c \in Conns : RecvError(c)
  \/ \E c \in Conns : RecvException(c)

Spec == Init /\ [][Next]_vars

\* ---- the transport's end and the handler's reaction as separate steps ----

\* the transport of c ends while its handler is anywhere in the try block;
\* the handler sees it when it next waits at line 46
TransportEnds(c) ==
  /\ pc[c] \in {"loop", "fanout", "sendS"}
  /\ ~closed[c]
  /\ closed' = [closed EXCEPT ![c] = TRUE]
  /\ UNCHANGED <<rooms, pc, room_id, client_type, cur, snap, pending, target,
                 sent, evicted, exitPath, sawStreamer, nextId>>

\* line 46 on a transport that has ended: the loop ends, finally runs
ExitClosed(c) ==
  /\ closed[c]
  /\ \E how \in {"close", "error", "exception"} : Exit(c, how)

\* line 46 on an open transport: a TEXT frame arrives
RecvOpen(c, data) == ~closed[c] /\ RecvText(c, data)

LiveNext ==
  \/ \E c \in Conns, r \in RoomIds, t \in ClientTypes : Connect(c, r, t)
  \/ \E c \in Conns : Join(c)
  \/ \E c \in Conns, ok \in BOOLEAN : RejectSend(c, ok)
  \/ \E c \in Conns : RejectClose(c)
  \/ \E c \in Conns, data \in Payloads : RecvOpen(c, data)
  \/ \E c \in Conns, v \in Conns, ok \in BOOLEAN : FanoutSend(c, v, ok)
  \/ \E c \in Conns, ok \in BOOLEAN : SendStreamerDone(c, ok)
  \/ \E c \in Conns : TransportEnds(c)
  \/ \E c \in Conns : ExitClosed(c)

\* The event loop runs every handler that can run: a handler whose
\* ws.prepare returned joins, a handler waiting at line 46 on an ended
\* transport exits.  The return of a send_str depends on the peer and no
\* deadline is set on it (lines 36, 59, 66): no fairness for the sends.
LiveSpec ==
  /\ Init
  /\ [][LiveNext]_vars
  /\ \A c \in Conns : WF_vars(Join(c)) /\ WF_vars(ExitClosed(c))

\* ---- definitions shared by the properties ----

IsRoom(r) == r \in DOMAIN rooms
Registered(c) ==
  \E r \in DOMAIN rooms : rooms[r].streamer = c \/ c \in rooms[r].viewers
RejectStates == {"rejecting", "closing", "rejected"}
LiveStates == {"loop", "fanout", "sendS"}
Last(q) == q[Len(q)]
\* the send_str calls on v that carried message id m
Attempts(v, m) == {i \in 1..Len(sent[v]) : sent[v][i].id = m}
Delivered(v, m) == {i \in Attempts(v, m) : sent[v][i].ok}
\* the error messages sent on v (they carry no received frame, id 0)
Errors(v) == Attempts(v, 0)

\* ---- C1 ----
\* C1: each room has at most one connection recorded as its streamer: the
\* field is None or one streamer-type connection of that room whose handler
\* is in its receive loop, and no step replaces a recorded streamer by
\* another connection (it can only be cleared first).
C1_RecordedOk ==
  \A r \in DOMAIN rooms :
    LET s == rooms[r].streamer
    IN /\ s \in Conns \cup {None}
       /\ s # None => /\ client_type[s] = "streamer"
                      /\ room_id[s] = r
                      /\ pc[s] \in {"loop", "fanout"}
                      /\ \A q \in DOMAIN rooms : rooms[q].streamer = s => q = r
C1_NoOverwrite ==
  \A r \in DOMAIN rooms :
    rooms[r].streamer # None =>
      rooms'[r].streamer \in {None, rooms[r].streamer}
C1_SinglePublisher == [][C1_NoOverwrite /\ C1_RecordedOk']_vars

\* a room keeps its recorded streamer after a second streamer joined it, a
\* send failed and a connection left
C1_Witness ==
  \E r \in DOMAIN rooms, d \in Conns :
    /\ rooms[r].streamer \notin {None, d}
    /\ client_type[d] = "streamer" /\ room_id[d] = r
    /\ pc[d] \notin {"new", "connecting"}
    /\ evicted # {}
    /\ \E e \in Conns : pc[e] = "left"

\* ---- C2 ----
\* C2: a streamer join to a room whose streamer is recorded is refused: the
\* join step and the rejection steps leave rooms as they are, the refused
\* connection is never registered, exactly one send_str (the error) is made
\* on it, the close follows that send, and it never reaches the receive loop
\* or the finally block (its states stay among rejecting/closing/rejected).
C2_Step(c) ==
  /\ (pc[c] = "connecting" /\ pc'[c] = "rejecting") =>
        /\ rooms' = rooms
        /\ sent' = sent
        /\ \A d \in Conns \ {c} : pc'[d] = pc[d]
  /\ pc[c] \in RejectStates =>
        /\ pc'[c] \in RejectStates
        /\ pc'[c] # pc[c] =>
              /\ rooms' = rooms
              /\ \A d \in Conns \ {c} : pc'[d] = pc[d] /\ sent'[d] = sent[d]
              /\ <<pc[c], pc'[c]>> \in {<<"rejecting", "closing">>,
                                        <<"rejecting", "rejected">>,
                                        <<"closing", "rejected">>}
C2_State(c) ==
  pc[c] \in RejectStates =>
    /\ ~Registered(c)
    /\ c \notin evicted
    /\ exitPath[c] = "none"
    /\ pc[c] = "rejecting" => sent[c] = <<>>
    /\ pc[c] # "rejecting" =>
          /\ Len(sent[c]) = 1
          /\ sent[c][1].data = ErrorText
          /\ sent[c][1].from = c
    /\ pc[c] = "closing" => sent[c][1].ok
C2_RejectedJoin == [][\A c \in Conns : C2_Step(c) /\ C2_State(c)']_vars

\* a second streamer was refused, got its error and was closed, while the
\* first streamer is still recorded and has relayed a message since
C2_Witness ==
  \E c, p \in Conns :
    /\ pc[c] = "rejected" /\ sent[c][1].ok
    /\ rooms[room_id[c]].streamer = p
    /\ p < c
    /\ cur[p].id # 0 /\ snap[p] # {} /\ pending[p] = {}

\* ---- C3 ----
\* C3 as stated: the error sent to a refused streamer decodes to type
\* "error" and message "room already has a streamer", letter for letter.
C3_Original ==
  \A v \in Conns : \A i \in Errors(v) :
    /\ JsonLoads(sent[v][i].data).kind = "dict"
    /\ JsonLoads(sent[v][i].data).type = "error"
    /\ JsonLoads(sent[v][i].data).message = "room already has a streamer"

\* C3 amended: the error decodes to type "error" and message
\* "Room already has a streamer" (capital R), and it is sent only on the
\* connection whose streamer join was refused, by its own handler.
C3_ErrorMessage ==
  \A v \in Conns : \A i \in Errors(v) :
    /\ JsonLoads(sent[v][i].data).kind = "dict"
    /\ JsonLoads(sent[v][i].data).type = "error"
    /\ JsonLoads(sent[v][i].data).message = "Room already has a streamer"
    /\ sent[v][i].from = v
    /\ pc[v] \in {"closing", "rejected"}
    /\ client_type[v] = "streamer"

\* a refused streamer has received the error
C3_Witness ==
  \E v \in Conns : pc[v] = "closing" /\ Errors(v) # {} /\ sent[v][1].ok

\* ---- C4 ----
\* the messages a streamer-type handler c has decoded and forwards
Forwarding(c) ==
  client_type[c] = "streamer" /\ cur[c].id # 0 /\ Forwardable(cur[c].data)
\* the step in which handler c receives a TEXT frame
Receives(c) == cur'[c] # cur[c]
AttemptsFrom(c, v, m) == {i \in Attempts(v, m) : sent[v][i].from = c}

\* C4: the fan-out of a streamer's decodable message goes over the viewers
\* set as it is when the message is received; when no send_str of that
\* message raised, every connection of that set the loop has reached has
\* been sent the message exactly once (verbatim), and no other connection
\* (not the streamer, not a viewer added later) has been sent it.
C4_Start(c) ==
  (Receives(c) /\ client_type[c] = "streamer" /\ Forwardable(cur'[c].data)) =>
    /\ snap'[c] = rooms[room_id[c]].viewers
    /\ pending'[c] = snap'[c]
    /\ sent' = sent
C4_State(c) ==
  Forwarding(c) =>
    LET m == cur[c].id
        done == snap[c] \ pending[c]
    IN /\ c \notin snap[c]
       /\ pc[c] # "fanout" => pending[c] = {}
       /\ (\A v \in Conns : \A i \in Attempts(v, m) : sent[v][i].ok) =>
            \A v \in Conns :
              /\ Cardinality(Delivered(v, m)) = IF v \in done THEN 1 ELSE 0
              /\ \A i \in Delivered(v, m) :
                    sent[v][i].data = cur[c].data /\ sent[v][i].from = c
C4_PublisherFanout == [][\A c \in Conns : C4_Start(c) /\ C4_State(c)']_vars

\* a streamer's message reached the one viewer of its room and not the
\* viewer that joined the room after the message was received
C4_Witness ==
  \E c, v, w \in Conns :
    /\ Forwarding(c) /\ pc[c] = "loop"
    /\ rooms[room_id[c]].streamer = c
    /\ snap[c] = {v} /\ pending[c] = {}
    /\ Cardinality(Delivered(v, cur[c].id)) = 1
    /\ w \in rooms[room_id[c]].viewers \ snap[c]
    /\ Attempts(w, cur[c].id) = {}

\* ---- C5 ----
\* C5: a viewer's decodable message is forwarded to the streamer recorded
\* when it is received: one send_str on that connection and on no other, so
\* it is delivered exactly once when the send succeeds; with no streamer
\* recorded the message is dropped: nothing is sent and rooms is unchanged.
C5_Start(c) ==
  (Receives(c) /\ client_type[c] # "streamer" /\ Forwardable(cur'[c].data)) =>
    LET s == rooms[room_id[c]].streamer
    IN /\ sent' = sent
       /\ rooms' = rooms
       /\ target'[c] = s
       /\ pc'[c] = IF s = None THEN "loop" ELSE "sendS"
C5_State(c) ==
  (client_type[c] # "streamer" /\ cur[c].id # 0 /\ Forwardable(cur[c].data)) =>
    LET m == cur[c].id
    IN \A v \in Conns :
         /\ Cardinality(Attempts(v, m)) =
              IF v = target[c] /\ pc[c] # "sendS" THEN 1 ELSE 0
         /\ \A i \in Attempts(v, m) :
               sent[v][i].data = cur[c].data /\ sent[v][i].from = c
C5_ViewerToStreamer == [][\A c \in Conns : C5_Start(c) /\ C5_State(c)']_vars

\* one viewer's message was delivered to the streamer, another viewer's
\* message was dropped because no streamer was recorded
C5_Witness ==
  \E c, d \in Conns :
    /\ client_type[c] = "viewer" /\ pc[c] = "loop" /\ target[c] # None
    /\ Cardinality(Delivered(target[c], cur[c].id)) = 1
    /\ client_type[d] = "viewer" /\ pc[d] = "loop" /\ cur[d].id # 0
    /\ Forwardable(cur[d].data) /\ target[d] = None
    /\ \A v \in Conns : Attempts(v, cur[d].id) = {}

\* ---- C6 ----
\* the step in which the send_str of handler c to v raises
FanoutFails(c, v) ==
  /\ pc[c] = "fanout" /\ v \in pending[c] /\ v \notin pending'[c]
  /\ Len(sent'[v]) = Len(sent[v]) + 1
  /\ ~Last(sent'[v]).ok

\* C6: when the send_str of a fan-out to viewer S raises, that step removes
\* S (and only S) from the room's viewers and the loop goes on with the
\* other members of its copy; S is not sent that message again, the copy of
\* every fan-out that starts later holds all the viewers still registered
\* and never S, and every member of a copy is sent the message exactly once.
C6_Fail(c, v) ==
  FanoutFails(c, v) =>
    LET r == room_id[c]
    IN /\ rooms'[r].viewers = rooms[r].viewers \ {v}
       /\ rooms'[r].streamer = rooms[r].streamer
       /\ \A q \in DOMAIN rooms \ {r} : rooms'[q] = rooms[q]
       /\ v \in rooms[r].viewers => v \in evicted'
       /\ pending'[c] = pending[c] \ {v}
       /\ pc'[c] = IF pending'[c] = {} THEN "loop" ELSE "fanout"
C6_Later(c) ==
  (Receives(c) /\ client_type[c] = "streamer" /\ Forwardable(cur'[c].data)) =>
    /\ snap'[c] \cap evicted = {}
    /\ rooms[room_id[c]].viewers \subseteq snap'[c]
C6_State(c) ==
  Forwarding(c) =>
    \A v \in Conns :
      Cardinality(AttemptsFrom(c, v, cur[c].id)) =
        IF v \in snap[c] \ pending[c] THEN 1 ELSE 0
C6_EvictOnFailure ==
  [][\A c \in Conns :
       /\ C6_Later(c)
       /\ C6_State(c)'
       /\ \A v \in Conns : C6_Fail(c, v)]_vars

\* the first message failed on S and reached T; S was evicted, and the
\* streamer's second message went to T only
C6_Witness ==
  \E c, S, T \in Conns :
    /\ Forwarding(c) /\ cur[c].id = 2 /\ pc[c] = "loop"
    /\ S \in evicted /\ client_type[S] = "viewer" /\ S # T
    /\ \E i \in AttemptsFrom(c, S, 1) : ~sent[S][i].ok
    /\ Attempts(S, 2) = {}
    /\ snap[c] = {T}
    /\ Cardinality(Delivered(T, 1)) = 1 /\ Cardinality(Delivered(T, 2)) = 1

\* ---- C7 ----
\* accepted connections of room r and type t that have neither left nor
\* been removed by an except branch
Residual(r, t) ==
  {c \in Conns : /\ room_id[c] = r /\ client_type[c] = t
                 /\ pc[c] \in LiveStates /\ c \notin evicted}

\* C7: the finally block runs exactly once for every accepted connection,
\* whatever ended its receive loop: a handler that has exited has run it
\* (and never runs again), is not the recorded streamer and is in no viewers
\* set; each room's streamer field and viewers set hold exactly the accepted
\* connections that have not left and were not evicted.
C7_State ==
  /\ \A c \in Conns :
       /\ pc[c] = "left" <=> exitPath[c] # "none"
       /\ pc[c] = "left" => ~Registered(c)
       /\ pc[c] \in LiveStates => IsRoom(room_id[c])
  /\ \A r \in DOMAIN rooms :
       /\ rooms[r].viewers = Residual(r, "viewer")
       /\ {rooms[r].streamer} \ {None} = Residual(r, "streamer")
C7_Once(c) ==
  /\ pc[c] = "left" => pc'[c] = "left" /\ exitPath'[c] = exitPath[c]
  /\ (pc[c] # "left" /\ pc'[c] = "left") => pc[c] = "loop"
C7_LeaveExactlyOnce == [][C7_State' /\ \A c \in Conns : C7_Once(c)]_vars

\* three connections joined one room and left in another order than they
\* joined, by three different exits; the room is empty again
C7_Witness ==
  \E r \in DOMAIN rooms :
    /\ \A c \in Conns : room_id[c] = r /\ pc[c] = "left"
    /\ {exitPath[c] : c \in Conns} = {"close", "error", "exception"}
    /\ \E c \in Conns : client_type[c] = "streamer" /\ sawStreamer[c] = c
    /\ rooms[r] = NewRoom

\* ---- C8 ----
\* C8: the finally block of a streamer-type connection clears the room's
\* streamer field only when the field is that connection; otherwise the
\* field (a replacement streamer) is left as it is.
C8_Step(c) ==
  (pc[c] # "left" /\ pc'[c] = "left" /\ client_type[c] = "streamer") =>
    LET r == room_id[c]
    IN /\ rooms'[r].streamer =
            IF rooms[r].streamer = c THEN None ELSE rooms[r].streamer
       /\ rooms'[r].viewers = rooms[r].viewers
       /\ \A q \in DOMAIN rooms \ {r} : rooms'[q] = rooms[q]
C8_CompareBeforeClear == [][\A c \in Conns : C8_Step(c)]_vars

\* an old streamer, displaced by a failed send, left while its replacement
\* was recorded, and the replacement is still recorded
C8_Witness ==
  \E c, d \in Conns :
    /\ c # d /\ client_type[c] = "streamer" /\ pc[c] = "left"
    /\ c \in evicted
    /\ sawStreamer[c] = d
    /\ rooms[room_id[c]].streamer = d

\* ---- C9 ----
\* the step in which the send_str of viewer c to the streamer it read raises
StreamerSendFails(c) ==
  /\ pc[c] = "sendS" /\ pc'[c] # "sendS"
  /\ ~Last(sent'[target[c]]).ok

\* C9 as stated: a failed send removes only the connection it was attempted
\* on: the sender stays registered, is sent nothing and goes back to its
\* receive loop, and a streamer field that refers to another connection
\* than the one the send was attempted on is not cleared.
C9_StreamerFail(c) ==
  StreamerSendFails(c) =>
    LET r == room_id[c]
    IN /\ rooms'[r].streamer =
            IF rooms[r].streamer = target[c] THEN None ELSE rooms[r].streamer
       /\ rooms'[r].viewers = rooms[r].viewers
       /\ \A q \in DOMAIN rooms \ {r} : rooms'[q] = rooms[q]
       /\ pc'[c] = "loop" /\ sent'[c] = sent[c]
C9_ViewerFail(c, v) ==
  FanoutFails(c, v) =>
    LET r == room_id[c]
    IN /\ rooms'[r].viewers = rooms[r].viewers \ {v}
       /\ rooms'[r].streamer = rooms[r].streamer
       /\ \A q \in DOMAIN rooms \ {r} : rooms'[q] = rooms[q]
       /\ pc'[c] \in {"loop", "fanout"} /\ sent'[c] = sent[c]
C9_Original ==
  [][\A c \in Conns :
       C9_StreamerFail(c) /\ \A v \in Conns : C9_ViewerFail(c, v)]_vars

\* ---- C10 ----
\* C10: when the recorded streamer's handler exits, its finally block
\* leaves the room's streamer field None; a streamer join that finds the
\* field None is accepted and recorded, and a streamer join is refused only
\* while the recorded streamer's handler has not exited.
C10_Step(c) ==
  LET r == room_id[c]
  IN /\ (pc[c] # "left" /\ pc'[c] = "left" /\ rooms[r].streamer = c) =>
          rooms'[r].streamer = None
     /\ (pc[c] = "connecting" /\ pc'[c] # "connecting"
           /\ client_type[c] = "streamer") =>
          IF IsRoom(r) /\ rooms[r].streamer # None
          THEN /\ pc'[c] = "rejecting"
               /\ pc[rooms[r].streamer] \in {"loop", "fanout"}
          ELSE /\ pc'[c] = "loop"
               /\ rooms'[r].streamer = c
C10_RejoinAfterLeave == [][\A c \in Conns : C10_Step(c)]_vars

\* the recorded streamer left, and a streamer that joined the room
\* afterwards is recorded
C10_Witness ==
  \E c, d \in Conns :
    /\ c # d /\ pc[c] = "left" /\ sawStreamer[c] = c
    /\ client_type[d] = "streamer" /\ room_id[d] = room_id[c]
    /\ rooms[room_id[c]].streamer = d

\* ---- C11 ----
\* C11: on every connection, the messages delivered from one sender appear
\* in the order in which the relay received them from that sender (message
\* ids count the TEXT frames in their order of receipt).
C11_Fifo ==
  \A v \in Conns : \A i, j \in 1..Len(sent[v]) :
    (i < j /\ sent[v][i].from = sent[v][j].from
       /\ sent[v][i].ok /\ sent[v][j].ok) =>
      sent[v][i].id < sent[v][j].id

\* two messages of one sender were delivered to the same connection while
\* another connection's handler was active in the room
C11_Witness ==
  \E v, c, d \in Conns :
    /\ c # v /\ d \notin {c, v} /\ pc[d] \in LiveStates
    /\ room_id[d] = room_id[c]
    /\ Delivered(v, 1) # {} /\ Delivered(v, 2) # {}
    /\ \A i \in Attempts(v, 1) \cup Attempts(v, 2) : sent[v][i].from = c

\* ---- C12 ----
Malformed(s) == JsonLoads(s).kind = "JSONDecodeError"

\* C12: a TEXT frame that json.loads rejects makes no send_str call and
\* changes no room and no handler's position: the handler is back in its
\* receive loop, and the decodable message it receives next is forwarded as
\* any other (to the viewers of the room, or to the recorded streamer).
C12_Drop(c) ==
  (Receives(c) /\ Malformed(cur'[c].data)) =>
    /\ sent' = sent /\ rooms' = rooms /\ evicted' = evicted
    /\ pc' = pc /\ pc'[c] = "loop"
C12_NextForwarded(c) ==
  (Receives(c) /\ Malformed(cur[c].data) /\ Forwardable(cur'[c].data)) =>
    LET room == rooms[room_id[c]]
    IN IF client_type[c] = "streamer"
       THEN /\ pending'[c] = room.viewers
            /\ pc'[c] = IF room.viewers = {} THEN "loop" ELSE "fanout"
       ELSE /\ target'[c] = room.streamer
            /\ pc'[c] = IF room.streamer = None THEN "loop" ELSE "sendS"
C12_MalformedDropped ==
  [][\A c \in Conns : C12_Drop(c) /\ C12_NextForwarded(c)]_vars

\* a viewer whose room has a streamer sent a malformed text: nothing was
\* sent for it and the viewer is still registered and receiving
C12_Witness ==
  \E c \in Conns :
    /\ cur[c].id # 0 /\ Malformed(cur[c].data)
    /\ pc[c] = "loop" /\ c \in rooms[room_id[c]].viewers
    /\ rooms[room_id[c]].streamer # None
    /\ \A v \in Conns : Attempts(v, cur[c].id) = {}

\* ---- C14 ----
\* the room r as it is, or as line 29 would create it
RoomOrNew(r) == IF IsRoom(r) THEN rooms[r] ELSE NewRoom
\* the handler of connection c takes a step
Acts(c) == pc'[c] # pc[c] \/ pending'[c] # pending[c]

\* C14: every send_str is made on a connection of the sender's own room,
\* and between two different connections only from a streamer to a viewer
\* or from a viewer to a streamer; a step changes the streamer field or the
\* viewers set of a room only when the handler that acts belongs to that
\* room, so every other room is left as it is.
C14_Sends ==
  \A v \in Conns : \A i \in 1..Len(sent[v]) :
    LET f == sent[v][i].from
    IN /\ room_id[f] = room_id[v]
       /\ f # v => client_type[f] # client_type[v]
       /\ f = v => sent[v][i].id = 0
C14_Rooms ==
  \A r \in DOMAIN rooms' :
    rooms'[r] # RoomOrNew(r) => \E c \in Conns : room_id[c] = r /\ Acts(c)
C14_Isolation == [][C14_Sends' /\ C14_Rooms]_vars

\* two rooms have members; a streamer's message was delivered in one of
\* them and nothing was sent to the viewer of the other
C14_Witness ==
  \E p, v, w \in Conns :
    /\ room_id[p] # room_id[w] /\ room_id[v] = room_id[p]
    /\ IsRoom(room_id[p]) /\ IsRoom(room_id[w])
    /\ rooms[room_id[p]].streamer = p /\ v \in rooms[room_id[p]].viewers
    /\ w \in rooms[room_id[w]].viewers
    /\ Forwarding(p) /\ Delivered(v, cur[p].id) # {}
    /\ sent[w] = <<>>

\* ---- C15 ----
\* C15: the join of a viewer-type connection is always accepted: the step
\* puts the connection in the room's viewers set (one more member, the
\* others kept), leaves the room's streamer field as it was, changes no
\* other room, and the handler goes to its receive loop.
C15_Step(c) ==
  (pc[c] = "connecting" /\ pc'[c] # "connecting"
     /\ client_type[c] # "streamer") =>
    LET r == room_id[c]
    IN /\ pc'[c] = "loop"
       /\ rooms'[r].viewers = RoomOrNew(r).viewers \cup {c}
       /\ rooms'[r].streamer = RoomOrNew(r).streamer
       /\ \A q \in DOMAIN rooms \ {r} : rooms'[q] = rooms[q]
       /\ sent' = sent
C15_ViewerJoinAccepted == [][\A c \in Conns : C15_Step(c)]_vars

\* a viewer is registered in a room that no streamer has joined, another
\* in a room whose streamer is recorded
C15_Witness ==
  \E c, d \in Conns :
    /\ room_id[c] # room_id[d]
    /\ IsRoom(room_id[c]) /\ IsRoom(room_id[d])
    /\ c \in rooms[room_id[c]].viewers
    /\ \A e \in Conns : room_id[e] = room_id[c] => client_type[e] = "viewer"
    /\ d \in rooms[room_id[d]].viewers
    /\ rooms[room_id[d]].streamer # None

\* ---- C16 ----
\* a count that forgets the streamer
ActiveInViewersOnly(room) == Cardinality(room.viewers)

\* line 97: len(room['viewers']) + (1 if room['streamer'] else 0)
ActiveIn(room) ==
  Cardinality(room.viewers) + (IF Truthy(room.streamer) THEN 1 ELSE 0)
RECURSIVE SumActive(_)
SumActive(R) ==
  IF R = {} THEN 0
  ELSE LET r == CHOOSE x \in R : TRUE
       IN ActiveIn(rooms[r]) + SumActive(R \ {r})
\* lines 92-98: the body of the /health response
HealthHandler ==
  [status |-> "ok",
   rooms |-> Cardinality(DOMAIN rooms),
   active_connections |-> SumActive(DOMAIN rooms)]

\* connections whose handler has run the join code (lines 25-43)
Joined == {c \in Conns : pc[c] \notin {"new", "connecting"}}

\* C16: the status snapshot reports as rooms the number of rooms that a join
\* has ever named (rooms that are empty again included), and as
\* active_connections the number of connections that are recorded as a
\* streamer or held in a viewers set.
C16_Snapshot ==
  /\ HealthHandler.status = "ok"
  /\ HealthHandler.rooms = Cardinality({room_id[c] : c \in Joined})
  /\ HealthHandler.active_connections =
       Cardinality({c \in Conns : Registered(c)})

\* two rooms were created; one is empty again and still counted, the other
\* holds a streamer and a viewer
C16_Witness ==
  /\ HealthHandler.rooms = 2 /\ HealthHandler.active_connections = 2
  /\ \E r \in DOMAIN rooms : rooms[r] = NewRoom
  /\ \E r \in DOMAIN rooms : rooms[r].streamer # None /\ rooms[r].viewers # {}

\* ---- C17 ----
\* streamer-type connections of room r that were accepted and whose handler
\* has not exited
LiveStreamers(r) ==
  {c \in Conns : /\ client_type[c] = "streamer" /\ room_id[c] = r
                 /\ pc[c] \in LiveStates}

\* C17 as stated: a room never has two accepted streamer-type connections
\* whose handlers are both still running.
C17_Original == \A r \in RoomIds : Cardinality(LiveStreamers(r)) <= 1

\* ---- C18 ----
\* handler c completes one send_str of its fan-out in this step
OwnSend(c) ==
  \E v \in Conns :
    Len(sent'[v]) = Len(sent[v]) + 1 /\ Last(sent'[v]).from = c

\* C18: while a fan-out is suspended in a send, the steps of the other
\* handlers (joins, exits, evictions in the same room) change neither its
\* copy nor what is left of it, and it stays in progress; each of its own
\* steps takes one member off what is left; when it is over nothing is
\* left, and every member of the copy was sent the message once and
\* received it once if that send succeeded, nobody else anything.
C18_Others(c) ==
  (pc[c] = "fanout" /\ ~OwnSend(c)) =>
    /\ pc'[c] = "fanout"
    /\ snap'[c] = snap[c] /\ pending'[c] = pending[c] /\ cur'[c] = cur[c]
C18_Own(c) ==
  (pc[c] = "fanout" /\ OwnSend(c)) =>
    /\ snap'[c] = snap[c] /\ cur'[c] = cur[c]
    /\ \E v \in pending[c] :
         /\ pending'[c] = pending[c] \ {v}
         /\ Len(sent'[v]) = Len(sent[v]) + 1
    /\ pc'[c] = IF pending'[c] = {} THEN "loop" ELSE "fanout"
C18_State(c) ==
  /\ pc[c] # "fanout" => pending[c] = {}
  /\ pending[c] \subseteq snap[c]
  /\ Forwarding(c) =>
       \A v \in Conns :
         LET a == AttemptsFrom(c, v, cur[c].id)
         IN /\ v \in snap[c] \ pending[c] => Cardinality(a) = 1
            /\ v \notin snap[c] \ pending[c] => a = {}
            /\ Cardinality(a \cap Delivered(v, cur[c].id)) =
                 Cardinality({i \in a : sent[v][i].ok})
C18_FanoutTolerates ==
  [][\A c \in Conns : C18_Others(c) /\ C18_Own(c) /\ C18_State(c)']_vars

\* a fan-out over two viewers is in progress: the viewer already served has
\* left the room meanwhile, and the other one is still to be served
C18_Witness ==
  \E c, v, w \in Conns :
    /\ pc[c] = "fanout" /\ snap[c] = {v, w} /\ pending[c] = {v} /\ v # w
    /\ pc[w] = "left"
    /\ Cardinality(Delivered(w, cur[c].id)) = 1

\* ---- C20 ----
\* streamer-type connections that have run the join code for room r
StreamerJoins(r) ==
  {c \in Joined : client_type[c] = "streamer" /\ room_id[c] = r}
Accepted(r) == {c \in StreamerJoins(r) : pc[c] \notin RejectStates}

\* C20: the join of a streamer is one step that either finds the field
\* None and records the connection, or finds it set, leaves it and takes
\* the rejection path; so of the streamer joins to a room whose accepted
\* streamer neither left nor was displaced, exactly one was accepted, it is
\* the recorded one, and all the others were refused.
C20_Step(c) ==
  (pc[c] = "connecting" /\ pc'[c] # "connecting"
     /\ client_type[c] = "streamer") =>
    LET r == room_id[c]
    IN \/ /\ RoomOrNew(r).streamer = None
          /\ pc'[c] = "loop" /\ rooms'[r].streamer = c
       \/ /\ RoomOrNew(r).streamer # None
          /\ pc'[c] = "rejecting"
          /\ rooms'[r].streamer = rooms[r].streamer
C20_State(r) ==
  (/\ StreamerJoins(r) # {}
   /\ \A c \in Accepted(r) : pc[c] \in LiveStates /\ c \notin evicted) =>
    /\ Cardinality(Accepted(r)) = 1
    /\ IsRoom(r) /\ rooms[r].streamer \in Accepted(r)
C20_AtomicJoin ==
  [][(\A c \in Conns : C20_Step(c)) /\ (\A r \in RoomIds : C20_State(r)')]_vars

\* three streamer joins to one room were in flight together: the one that
\* arrived last was accepted first, the two others were refused
C20_Witness ==
  \E r \in DOMAIN rooms :
    /\ StreamerJoins(r) = Conns
    /\ rooms[r].streamer = NConn
    /\ \A c \in Conns \ {NConn} : pc[c] \in RejectStates

\* ---- C13 ----
\* the moves a handler can make between the states of its connection
Moves ==
  {<<"new", "connecting">>, <<"connecting", "rejecting">>,
   <<"connecting", "loop">>, <<"rejecting", "closing">>,
   <<"rejecting", "rejected">>, <<"closing", "rejected">>,
   <<"loop", "fanout">>, <<"loop", "sendS">>, <<"fanout", "loop">>,
   <<"sendS", "loop">>, <<"loop", "left">>}

\* C13 as stated: a connection goes Connecting -> Rejected or Connecting ->
\* Joined -> Relaying -> Left, a step moves one handler only, and once the
\* transport of an accepted connection has ended the connection eventually
\* has left and is registered nowhere.
C13_Machine ==
  \A c \in Conns :
    pc'[c] # pc[c] =>
      /\ <<pc[c], pc'[c]>> \in Moves
      /\ \A d \in Conns \ {c} : pc'[d] = pc[d]
C13_Original ==
  /\ [][C13_Machine]_vars
  /\ \A c \in Conns :
       (closed[c] /\ pc[c] \in LiveStates) ~> (pc[c] = "left" /\ ~Registered(c))

\* ---- C19 ----
\* C19 as stated: a handler suspended in a send_str eventually gets on,
\* whatever the recipient does: the fan-out or the send to the streamer ends
\* and the handler is back at its receive.
C19_Original ==
  \A c \in Conns : (pc[c] \in {"fanout", "sendS"}) ~> (pc[c] = "loop")
====
